---- MODULE Spec2Model ----
(***************************************************************************)
(* Options Flow Monitor (src/app.py): the chain retriever                  *)
(* OptionsDataFetcher.get_options_data, the reducer analyze_options and    *)
(* the three routes scan_symbol, scan_multiple and top_strikes.            *)
(*                                                                         *)
(* One request is served at a time (the handlers are synchronous and the   *)
(* service keeps nothing between requests).  get_options_data is modelled  *)
(* step by step, one action per provider round trip, because the claims    *)
(* speak about which provider calls are made and in which order.  The      *)
(* provider (yfinance) is the environment: every answer it can give,       *)
(* including raising, is a nondeterministic choice.                        *)
(*                                                                         *)
(* Numbers: prices are integers; ratio and avgRatio are kept in hundredths *)
(* (ratio 2.33 is 233), which is exactly the precision round(x, 2) keeps.  *)
(***************************************************************************)
EXTENDS Integers, Sequences, FiniteSets

VARIABLES
    op,             \* route being served: "idle", "scan_symbol", "scan_multiple", "top_strikes"
    request,        \* the request as received (URL symbol or JSON body)
    pc,             \* position of the handler
    symbol,         \* local `symbol` of the route (after normalisation)
    idx,            \* scan_multiple: position of the for loop in `symbols`
    results,        \* scan_multiple: local `results`
    current_price,  \* get_options_data: local `current_price`
    expirations,    \* get_options_data: local `expirations` (ticker.options)
    k,              \* get_options_data: position of the for loop in near_expirations
    all_calls,      \* get_options_data: local `all_calls` (list of frames)
    all_puts,       \* get_options_data: local `all_puts` (list of frames)
    data,           \* value returned by get_options_data
    response,       \* HTTP response of the route
    market,         \* history: what the provider answers to the price queries of this call
    options_answer, \* history: how ticker.options answered in this call
    fetched,        \* history: ticker.option_chain calls of this call, with their answers
    contacted       \* history: some provider call was made while serving this request

vars == <<op, request, pc, symbol, idx, results, current_price, expirations, k,
          all_calls, all_puts, data, response, market, options_answer, fetched,
          contacted>>

-----------------------------------------------------------------------------
(* Bounds of the model *)

\* longest expiration list the provider returns
MaxExp == 5
\* longest symbol list of a batch request
MaxSymbols == 2

(* Program constants *)

\* expirations[:min(4, len(expirations))]
NearCount == 4
\* data.get('callVolThreshold', 5000)
DefaultCallVolThreshold == 5000
\* data.get('ratioThreshold', 2.0), in hundredths
DefaultRatioThreshold == 200
\* current_price = 0 when the price queries fail; info.get(..., 0)
NoPrice == 0

(* Encodings *)

\* a key that the JSON object / info dict does not hold
Missing == -1
\* a JSON null
Null == -2
\* a volume cell without a value (NaN in the data frame)
NaN == -3

Min(a, b) == IF a <= b THEN a ELSE b

-----------------------------------------------------------------------------
(* Strings: a symbol is a sequence of characters *)

Whitespace == {" "}

\* str.upper on one character
UpperChar(c) == IF c = "a" THEN "A" ELSE IF c = "b" THEN "B" ELSE c

\* str.upper
Upper(s) == [j \in 1..Len(s) |-> UpperChar(s[j])]

RECURSIVE LStrip(_)
LStrip(s) == IF s # <<>> /\ Head(s) \in Whitespace THEN LStrip(Tail(s)) ELSE s

RECURSIVE RStrip(_)
RStrip(s) ==
    IF s # <<>> /\ s[Len(s)] \in Whitespace THEN RStrip(SubSeq(s, 1, Len(s) - 1)) ELSE s

\* str.strip
Strip(s) == RStrip(LStrip(s))

\* scan_multiple: symbol.upper().strip()
NormalizeBatchSymbol(s) == Strip(Upper(s))

\* scan_symbol, top_strikes: symbol.upper()
NormalizeUrlSymbol(s) == Upper(s)

-----------------------------------------------------------------------------
(* The environment: requests and provider answers *)

RawSymbols == { <<"a", " ">>, <<" ", "b">> }

SymbolLists == UNION { [1..n -> RawSymbols] : n \in 0..MaxSymbols }

\* request.get_json(): an object, or no usable object at all
Bodies ==
    { [json |-> "none"] }
    \cup { [json |-> "object", has_symbols |-> FALSE, symbols |-> <<>>,
            callVolThreshold |-> Missing, ratioThreshold |-> Missing] }
    \cup [json : {"object"}, has_symbols : {TRUE}, symbols : SymbolLists,
          callVolThreshold : {Missing, Null, 2500}, ratioThreshold : {Missing, 0}]

\* ticker.history(period='1d'): raises, no rows, or rows whose last Close is `close`
HistoryAnswers ==
    { [kind |-> "raise", close |-> NoPrice], [kind |-> "empty", close |-> NoPrice],
      [kind |-> "rows", close |-> 100] }

\* ticker.info: raises, or a dict that may hold currentPrice / regularMarketPrice
InfoAnswers ==
    { [kind |-> "raise", currentPrice |-> Missing, regularMarketPrice |-> Missing],
      [kind |-> "dict", currentPrice |-> Missing, regularMarketPrice |-> Missing],
      [kind |-> "dict", currentPrice |-> 150, regularMarketPrice |-> 151],
      [kind |-> "dict", currentPrice |-> Missing, regularMarketPrice |-> 151] }

\* what the provider would answer to the two price queries of one call
Markets == [history : HistoryAnswers, info : InfoAnswers]

\* ticker.options: the provider's list of n expiration dates, in its order
ExpirationList(n) == [j \in 1..n |-> j]

\* lengths of the list ticker.options answers with; within a batch the lists are
\* kept to at most one expiration
ExpirationCounts == IF op = "scan_multiple" THEN {0, 1} ELSE 0..MaxExp

Row(v) == [strike |-> 100, volume |-> v]

\* ticker.option_chain(exp): raises, or frames of calls and puts
ChainAnswers ==
    { [kind |-> "raise", calls |-> <<>>, puts |-> <<>>],
      [kind |-> "chain", calls |-> <<Row(5000)>>, puts |-> <<>>],
      [kind |-> "chain", calls |-> <<Row(5000), Row(NaN)>>, puts |-> <<Row(1500)>>],
      [kind |-> "chain", calls |-> <<Row(2500)>>, puts |-> <<Row(NaN), Row(0)>>] }

-----------------------------------------------------------------------------
(* Values *)

None == [kind |-> "None"]

\* what a caller would see if get_options_data let an exception out
Raised == [kind |-> "raised"]

NoResponse == [status |-> 0]

NoMarket == [history |-> [kind |-> "unasked", close |-> NoPrice],
             info |-> [kind |-> "unasked", currentPrice |-> Missing,
                       regularMarketPrice |-> Missing]]

-----------------------------------------------------------------------------
(* OptionsDataFetcher.get_options_data *)

\* the price block: history first, info only when history has no rows, 0 on any exception
PriceQuery(h, i) ==
    IF h.kind = "raise" THEN NoPrice
    ELSE IF h.kind = "rows" THEN h.close
    ELSE IF i.kind = "raise" THEN NoPrice
    ELSE IF i.currentPrice # Missing THEN i.currentPrice
    ELSE IF i.regularMarketPrice # Missing THEN i.regularMarketPrice
    ELSE NoPrice

\* faulty variant of OnSymbolException: the outer handler lets the exception out
OnSymbolExceptionReraise == Raised

\* except Exception as e: ... return None  (the outer handler)
OnSymbolException == None

\* `not expirations or len(expirations) == 0`
NoOptions(e) == e = <<>>

\* faulty variant of NearExpirations: every listed expiration is fetched
NearExpirationsAll(e) == e

\* expirations[:min(4, len(expirations))]
NearExpirations(e) == SubSeq(e, 1, Min(NearCount, Len(e)))

\* faulty variant of SkipChain: an expiration is skipped only when both sides are empty
SkipChainBothEmpty(ans) == ans.calls = <<>> /\ ans.puts = <<>>

\* `if calls.empty or puts.empty: continue`
SkipChain(ans) == ans.calls = <<>> \/ ans.puts = <<>>

\* calls['expiration'] = exp_date
Tag(frame, exp) ==
    [j \in 1..Len(frame) |->
        [strike |-> frame[j].strike, volume |-> frame[j].volume, expiration |-> exp]]

\* pd.concat(frames, ignore_index=True)
RECURSIVE Concat(_)
Concat(frames) == IF frames = <<>> THEN <<>> ELSE Head(frames) \o Concat(Tail(frames))

\* the entry of get_options_data: fresh locals, nothing asked of the provider yet
CallFetcher(sym) ==
    /\ symbol' = sym
    /\ pc' = "price"
    /\ current_price' = NoPrice
    /\ expirations' = <<>>
    /\ k' = 0
    /\ all_calls' = <<>>
    /\ all_puts' = <<>>
    /\ data' = [kind |-> "pending"]
    /\ market' = NoMarket
    /\ options_answer' = "unasked"
    /\ fetched' = <<>>

\* lines 43-54
GetPrice ==
    /\ pc = "price"
    /\ \E m \in Markets :
        /\ market' = m
        /\ current_price' = PriceQuery(m.history, m.info)
    /\ contacted' = TRUE
    /\ pc' = "options"
    /\ UNCHANGED <<op, request, symbol, idx, results, expirations, k, all_calls,
                   all_puts, data, response, options_answer, fetched>>

\* lines 56-66, ticker.options raising: the outer handler returns
GetExpirationsRaise ==
    /\ pc = "options"
    /\ options_answer' = "raise"
    /\ data' = OnSymbolException
    /\ pc' = "ret"
    /\ contacted' = TRUE
    /\ UNCHANGED <<op, request, symbol, idx, results, current_price, expirations, k,
                   all_calls, all_puts, response, market, fetched>>

\* lines 56-66, ticker.options answering with a list
GetExpirations ==
    /\ pc = "options"
    /\ \E n \in ExpirationCounts :
        LET e == ExpirationList(n) IN
        /\ expirations' = e
        /\ options_answer' = IF e = <<>> THEN "empty" ELSE "list"
        /\ IF NoOptions(e)
           THEN /\ data' = None
                /\ pc' = "ret"
                /\ k' = k
           ELSE /\ data' = data
                /\ pc' = "chain"
                /\ k' = 1
    /\ contacted' = TRUE
    /\ UNCHANGED <<op, request, symbol, idx, results, current_price, all_calls,
                   all_puts, response, market, fetched>>

\* lines 68-89: one iteration of the loop over near_expirations
FetchChain ==
    /\ pc = "chain"
    /\ k <= Len(NearExpirations(expirations))
    /\ LET exp == NearExpirations(expirations)[k] IN
       \E ans \in ChainAnswers :
        /\ fetched' = Append(fetched, [expiration |-> exp, answer |-> ans])
        /\ IF ans.kind = "raise" \/ SkipChain(ans)
           THEN UNCHANGED <<all_calls, all_puts>>
           ELSE /\ all_calls' = Append(all_calls, Tag(ans.calls, exp))
                /\ all_puts' = Append(all_puts, Tag(ans.puts, exp))
    /\ k' = k + 1
    /\ contacted' = TRUE
    /\ UNCHANGED <<op, request, pc, symbol, idx, results, current_price, expirations,
                   data, response, market, options_answer>>

\* lines 91-102: after the loop
ReturnData ==
    /\ pc = "chain"
    /\ k > Len(NearExpirations(expirations))
    /\ data' = IF all_calls = <<>> \/ all_puts = <<>>
               THEN None
               ELSE [kind |-> "snapshot", calls |-> Concat(all_calls),
                     puts |-> Concat(all_puts), current_price |-> current_price]
    /\ pc' = "ret"
    /\ UNCHANGED <<op, request, symbol, idx, results, current_price, expirations, k,
                   all_calls, all_puts, response, market, options_answer, fetched,
                   contacted>>

-----------------------------------------------------------------------------
(* OptionsDataFetcher.analyze_options *)

\* round(x, 2) of x = n / d hundredths.  Off a tie the result is the nearest
\* hundredth.  On a tie Python rounds the double it holds: half-to-even when
\* that double is the exact quotient, and to either side when it is not.
Round2(n, d, exact) ==
    LET q == n \div d
        r == n % d
    IN  IF 2 * r < d THEN {q}
        ELSE IF 2 * r > d THEN {q + 1}
        ELSE IF exact THEN {IF q % 2 = 0 THEN q ELSE q + 1}
        ELSE {q, q + 1}

\* column.fillna(0).sum()
RECURSIVE SumVolume(_)
SumVolume(frame) ==
    IF frame = <<>> THEN 0
    ELSE (IF Head(frame).volume = NaN THEN 0 ELSE Head(frame).volume)
         + SumVolume(Tail(frame))

\* faulty variant of CallPutRatio: the operands are swapped (a put/call ratio)
CallPutRatioSwapped(c, p) ==
    IF c > 0 THEN Round2(100 * p, c, (2 * ((100 * p) \div c) + 1) % 25 = 0)
    ELSE {0}

\* round(total_call_volume / total_put_volume, 2) if total_put_volume > 0 else 0
\* c / p is the correctly rounded double; it is the exact quotient on a tie
\* only when the quotient is a multiple of 1/8.
CallPutRatio(c, p) ==
    IF p > 0 THEN Round2(100 * c, p, (2 * ((100 * c) \div p) + 1) % 25 = 0)
    ELSE {0}

\* the fields of the analysis the routes and the batch summary read
analyze_options(sym, d) ==
    LET c == SumVolume(d.calls)
        p == SumVolume(d.puts)
    IN  { [symbol |-> sym, currentPrice |-> d.current_price,
           callVolume |-> c, putVolume |-> p, ratio |-> r] :
          r \in CallPutRatio(c, p) }

-----------------------------------------------------------------------------
(* The routes *)

\* faulty variant of IsNone: the route forgets to test for None
IsNoneNever(d) == FALSE

\* `if data is None` / `if options_data is None`
IsNone(d) == d.kind = "None"

\* data['calls'] on what get_options_data returned raises unless it is a snapshot
Unusable(d) == d.kind # "snapshot"

Respond(r) ==
    /\ response' = r
    /\ pc' = "done"

\* scan_symbol, lines 182-186
StartScanSymbol ==
    /\ op = "idle"
    /\ \E s \in RawSymbols :
        /\ request' = [symbol |-> s]
        /\ CallFetcher(NormalizeUrlSymbol(s))
    /\ op' = "scan_symbol"
    /\ UNCHANGED <<idx, results, response, contacted>>

\* scan_symbol, lines 188-199
FinishScanSymbol ==
    /\ op = "scan_symbol"
    /\ pc = "ret"
    /\ IF data.kind = "raised"
       THEN Respond([status |-> 500, body |-> [error |-> "Exception"]])
       ELSE IF IsNone(data)
       THEN Respond([status |-> 404,
                     body |-> [error |-> "Could not fetch data", symbol |-> symbol]])
       ELSE IF Unusable(data)
       THEN Respond([status |-> 500, body |-> [error |-> "Exception"]])
       ELSE \E a \in analyze_options(symbol, data) :
               Respond([status |-> 200, body |-> a])
    /\ UNCHANGED <<op, request, symbol, idx, results, current_price, expirations, k,
                   all_calls, all_puts, data, market, options_answer, fetched,
                   contacted>>

\* top_strikes, lines 270-272
StartTopStrikes ==
    /\ op = "idle"
    /\ \E s \in RawSymbols :
        /\ request' = [symbol |-> s]
        /\ CallFetcher(NormalizeUrlSymbol(s))
    /\ op' = "top_strikes"
    /\ UNCHANGED <<idx, results, response, contacted>>

\* top_strikes, lines 274-299 (the strike lists themselves are left out)
FinishTopStrikes ==
    /\ op = "top_strikes"
    /\ pc = "ret"
    /\ IF data.kind = "raised"
       THEN Respond([status |-> 500, body |-> [error |-> "Exception"]])
       ELSE IF IsNone(data)
       THEN Respond([status |-> 404, body |-> [error |-> "Could not fetch data"]])
       ELSE IF Unusable(data)
       THEN Respond([status |-> 500, body |-> [error |-> "Exception"]])
       ELSE Respond([status |-> 200,
                     body |-> [symbol |-> symbol, currentPrice |-> data.current_price]])
    /\ UNCHANGED <<op, request, symbol, idx, results, current_price, expirations, k,
                   all_calls, all_puts, data, market, options_answer, fetched,
                   contacted>>

\* dict.get(key, default)
Get(v, default) == IF v = Missing THEN default ELSE v

\* data.get('symbols', [])
Symbols(b) == IF b.has_symbols THEN b.symbols ELSE <<>>

\* data.get('callVolThreshold', 5000)
CallVolThreshold(b) == Get(b.callVolThreshold, DefaultCallVolThreshold)

\* data.get('ratioThreshold', 2.0)
RatioThreshold(b) == Get(b.ratioThreshold, DefaultRatioThreshold)

\* faulty variant of NoSymbols: the emptiness test is gone
NoSymbolsNever(syms) == FALSE

\* `if not symbols`
NoSymbols(syms) == syms = <<>>

\* scan_multiple, lines 204-213.  Without a JSON object get_json() raises or
\* returns None, and data.get raises: either way the route's handler answers 500.
StartScanMultiple ==
    /\ op = "idle"
    /\ op' = "scan_multiple"
    /\ \E b \in Bodies :
        /\ request' = b
        /\ IF b.json = "none"
           THEN /\ Respond([status |-> 500, body |-> [error |-> "Exception"]])
                /\ UNCHANGED <<idx, results>>
           ELSE IF NoSymbols(Symbols(b))
           THEN /\ Respond([status |-> 400, body |-> [error |-> "No symbols provided"]])
                /\ UNCHANGED <<idx, results>>
           ELSE /\ results' = <<>>
                /\ idx' = 1
                /\ pc' = "loop"
                /\ response' = response
    /\ UNCHANGED <<symbol, current_price, expirations, k, all_calls, all_puts, data,
                   market, options_answer, fetched, contacted>>

\* scan_multiple, lines 215-220: the next symbol of the loop
NextSymbol ==
    /\ op = "scan_multiple"
    /\ pc = "loop"
    /\ idx <= Len(Symbols(request))
    /\ CallFetcher(NormalizeBatchSymbol(Symbols(request)[idx]))
    /\ UNCHANGED <<op, request, idx, results, response, contacted>>

\* faulty variant of Flagged: either threshold is enough
FlaggedEither(a, c, r) == a.callVolume >= c \/ a.ratio >= r

\* analysis['callVolume'] >= call_vol_threshold and analysis['ratio'] >= ratio_threshold
Flagged(a, c, r) == a.callVolume >= c /\ a.ratio >= r

\* the comparison raises TypeError when it reaches a threshold that is null
FlagRaises(a, c, r) == c = Null \/ (a.callVolume >= c /\ r = Null)

\* faulty variant of ErrorEntries: a symbol without data is skipped silently
ErrorEntriesSkipped(sym, text) == <<>>

\* results.append({'symbol': symbol, 'error': ..., 'flagged': False})
ErrorEntries(sym, text) == <<[symbol |-> sym, error |-> text, flagged |-> FALSE]>>

\* scan_multiple, lines 222-246: the entry of the current symbol
AppendEntry ==
    /\ op = "scan_multiple"
    /\ pc = "ret"
    /\ LET c == CallVolThreshold(request)
           r == RatioThreshold(request)
       IN  IF data.kind = "raised"
           THEN results' = results \o ErrorEntries(symbol, "Exception")
           ELSE IF IsNone(data)
           THEN results' = results \o ErrorEntries(symbol, "Could not fetch data")
           ELSE IF Unusable(data)
           THEN results' = results \o ErrorEntries(symbol, "Exception")
           ELSE \E a \in analyze_options(symbol, data) :
                   IF FlagRaises(a, c, r)
                   THEN results' = results \o ErrorEntries(symbol, "Exception")
                   ELSE results' = Append(results,
                            [symbol |-> a.symbol, currentPrice |-> a.currentPrice,
                             callVolume |-> a.callVolume, putVolume |-> a.putVolume,
                             ratio |-> a.ratio, flagged |-> Flagged(a, c, r)])
    /\ idx' = idx + 1
    /\ pc' = "loop"
    /\ UNCHANGED <<op, request, symbol, current_price, expirations, k, all_calls,
                   all_puts, data, response, market, options_answer, fetched,
                   contacted>>

\* [r for r in results if 'error' not in r]
IsValid(r) == "error" \notin DOMAIN r

RECURSIVE SumRatio(_)
SumRatio(rs) == IF rs = <<>> THEN 0 ELSE Head(rs).ratio + SumRatio(Tail(rs))

\* faulty variant of Summary: the average is taken over every entry scanned
SummaryOverAll(rs) ==
    LET valid == SelectSeq(rs, IsValid)
        flagged == SelectSeq(valid, LAMBDA r : r.flagged)
    IN  { [totalScanned |-> Len(rs), successfulScans |-> Len(valid),
           flaggedCount |-> Len(flagged), avgRatio |-> avg] :
          avg \in IF valid = <<>> THEN {0}
                  ELSE Round2(SumRatio(valid), Len(rs), FALSE) }

\* lines 248-256; the sum of the rounded ratios is a double, so on a tie the
\* average may round to either side
Summary(rs) ==
    LET valid == SelectSeq(rs, IsValid)
        flagged == SelectSeq(valid, LAMBDA r : r.flagged)
    IN  { [totalScanned |-> Len(rs), successfulScans |-> Len(valid),
           flaggedCount |-> Len(flagged), avgRatio |-> avg] :
          avg \in IF valid = <<>> THEN {0}
                  ELSE Round2(SumRatio(valid), Len(valid), FALSE) }

\* scan_multiple, lines 248-261: after the loop
FinishScanMultiple ==
    /\ op = "scan_multiple"
    /\ pc = "loop"
    /\ idx > Len(Symbols(request))
    /\ \E s \in Summary(results) :
        Respond([status |-> 200, body |-> [summary |-> s, results |-> results]])
    /\ UNCHANGED <<op, request, symbol, idx, results, current_price, expirations, k,
                   all_calls, all_puts, data, market, options_answer, fetched,
                   contacted>>

-----------------------------------------------------------------------------
(* The specification *)

Init ==
    /\ op = "idle"
    /\ request = [symbol |-> <<>>]
    /\ pc = "idle"
    /\ symbol = <<>>
    /\ idx = 0
    /\ results = <<>>
    /\ current_price = NoPrice
    /\ expirations = <<>>
    /\ k = 0
    /\ all_calls = <<>>
    /\ all_puts = <<>>
    /\ data = [kind |-> "pending"]
    /\ response = NoResponse
    /\ market = NoMarket
    /\ options_answer = "unasked"
    /\ fetched = <<>>
    /\ contacted = FALSE

Next ==
    \/ StartScanSymbol
    \/ StartTopStrikes
    \/ StartScanMultiple
    \/ GetPrice
    \/ GetExpirationsRaise
    \/ GetExpirations
    \/ FetchChain
    \/ ReturnData
    \/ FinishScanSymbol
    \/ FinishTopStrikes
    \/ NextSymbol
    \/ AppendEntry
    \/ FinishScanMultiple

Spec == Init /\ [][Next]_vars

-----------------------------------------------------------------------------
(* Shorthands of the properties *)

\* get_options_data has returned to the route
Returned == pc \in {"ret", "loop", "done"} /\ data.kind # "pending"

\* a chain fetch that came back with both sides non-empty
Qualifies(f) ==
    f.answer.kind = "chain" /\ f.answer.calls # <<>> /\ f.answer.puts # <<>>

\* the records of one side of the qualifying fetches, in fetch order, each with
\* the expiration it was fetched for
RECURSIVE ExpectedRows(_, _)
ExpectedRows(fs, side) ==
    IF fs = <<>> THEN <<>>
    ELSE LET f == Head(fs)
             rows == IF side = "calls" THEN f.answer.calls ELSE f.answer.puts
         IN  (IF Qualifies(f)
              THEN [j \in 1..Len(rows) |->
                      [strike |-> rows[j].strike, volume |-> rows[j].volume,
                       expiration |-> f.expiration]]
              ELSE <<>>)
             \o ExpectedRows(Tail(fs), side)

\* the symbol of a batch entry: upper case, trimmed
ExpectedSymbol(s) == IF s = <<"a", " ">> THEN <<"A">> ELSE <<"B">>

IsErrorEntry(r) == DOMAIN r = {"symbol", "error", "flagged"} /\ r.flagged = FALSE

\* x hundredths is n / d rounded to a whole number of hundredths
IsRounded(x, n, d) == 2 * x * d - 2 * n <= d /\ 2 * n - 2 * x * d <= d

BatchDone == op = "scan_multiple" /\ pc = "done" /\ response.status = 200

-----------------------------------------------------------------------------
(* C1 *)

\* C1: when the provider's expiration list of a symbol is empty or the query
\* for it fails, get_options_data returns None and no option chain is ever
\* fetched in that call, whatever the price queries answered.
C1_NoChainFetchWithoutExpirations ==
    options_answer \in {"empty", "raise"} =>
        /\ fetched = <<>>
        /\ all_calls = <<>> /\ all_puts = <<>>
        /\ pc \in {"ret", "loop", "done"}
        /\ data = None

C1_Witness ==
    /\ options_answer = "empty"
    /\ market.history.kind = "raise"
    /\ op = "scan_symbol"
    /\ pc = "done"
    /\ response.status = 404

-----------------------------------------------------------------------------
(* C10 *)

\* C10: with a non-empty list of n expirations, the chain fetches made are the
\* first min(4, n) listed expirations, each once, in the listed order, and no
\* other; whatever those fetches answer.
C10_FetchesFirstFour ==
    options_answer = "list" =>
        /\ Len(fetched) <= Min(4, Len(expirations))
        /\ \A j \in 1..Len(fetched) : fetched[j].expiration = expirations[j]
        /\ Returned => Len(fetched) = Min(4, Len(expirations))

C10_Witness ==
    /\ Returned
    /\ Len(expirations) = 5
    /\ Len(fetched) = 4
    /\ fetched[1].answer.kind = "raise"
    /\ fetched[2].answer.kind = "chain" /\ fetched[2].answer.puts = <<>>
    /\ fetched[4].answer.kind = "raise"

-----------------------------------------------------------------------------
(* C9 *)

\* C9: with a non-empty expiration list, get_options_data returns None exactly
\* when no fetched expiration came back with both sides non-empty; otherwise it
\* returns a snapshot whose calls and puts are the records of the qualifying
\* expirations, concatenated in expiration order, each tagged with its
\* expiration, and both are non-empty.
C9_PartialData ==
    (options_answer = "list" /\ Returned) =>
        LET q == SelectSeq(fetched, Qualifies) IN
        /\ data = None <=> q = <<>>
        /\ data # None =>
            /\ data.kind = "snapshot"
            /\ data.calls = ExpectedRows(fetched, "calls")
            /\ data.puts = ExpectedRows(fetched, "puts")
            /\ data.calls # <<>> /\ data.puts # <<>>

C9_Witness ==
    /\ Returned
    /\ data.kind = "snapshot"
    /\ Len(fetched) = 4
    /\ fetched[1].answer.kind = "raise"
    /\ Qualifies(fetched[2])
    /\ ~Qualifies(fetched[3]) /\ fetched[3].answer.kind = "chain"
    /\ Qualifies(fetched[4])
    /\ fetched[2].answer = fetched[4].answer

-----------------------------------------------------------------------------
(* C4 *)

\* the provider has a real-time quote for the symbol
QuoteAvailable(i) ==
    i.kind = "dict" /\ (i.currentPrice # Missing \/ i.regularMarketPrice # Missing)

\* the quote field the provider reports
Quote(i) == IF i.currentPrice # Missing THEN i.currentPrice ELSE i.regularMarketPrice

\* the price the resolution order (a) daily close, (b) quote, (c) 0 arrives at
ResolvedPrice(m) ==
    IF m.history.kind = "rows" THEN m.history.close
    ELSE IF QuoteAvailable(m.info) THEN Quote(m.info)
    ELSE 0

\* C4: the price of a symbol is the latest daily close when there is one,
\* otherwise the provider's quote field when there is one, otherwise 0; and
\* whatever the price queries do, the call goes on to the expiration list and
\* a snapshot carries that price into the response.
C4_PriceResolution ==
    /\ market.history.kind # "unasked" =>
        /\ current_price = ResolvedPrice(market)
        /\ pc # "price"
    /\ (Returned /\ data.kind = "snapshot") => data.current_price = ResolvedPrice(market)
    /\ (op \in {"scan_symbol", "top_strikes"} /\ pc = "done" /\ response.status = 200) =>
        response.body.currentPrice = ResolvedPrice(market)

\* The part of C4 the code does satisfy: the price is what the price block of
\* get_options_data computes (the quote is consulted only when history answers
\* with no rows), and a failed price query leaves price 0 without stopping the
\* call: a snapshot and a 200 answer with currentPrice 0 still follow.
C4_PriceFailureContinues ==
    /\ market.history.kind # "unasked" =>
        /\ current_price = PriceQuery(market.history, market.info)
        /\ market.history.kind = "raise" => current_price = 0
    /\ (op \in {"scan_symbol", "top_strikes"} /\ pc = "done" /\ data.kind = "snapshot") =>
        /\ response.status = 200
        /\ response.body.currentPrice = current_price

C4_PriceFailureWitness ==
    /\ op = "scan_symbol" /\ pc = "done"
    /\ market.history.kind = "raise" /\ QuoteAvailable(market.info)
    /\ response.status = 200
    /\ response.body.currentPrice = 0

-----------------------------------------------------------------------------
(* C6 *)

\* C6: an analysis reports callVolume and putVolume as the sums of volume with
\* a missing volume counted as 0, and ratio as 0 when putVolume is 0 and as
\* callVolume / putVolume rounded to two decimals otherwise; never negative.
C6_Ratio ==
    LET Holds(a) ==
            /\ a.ratio >= 0
            /\ a.putVolume = 0 => a.ratio = 0
            /\ a.putVolume > 0 => IsRounded(a.ratio, 100 * a.callVolume, a.putVolume)
    IN  /\ (op = "scan_symbol" /\ pc = "done" /\ response.status = 200) =>
            /\ Holds(response.body)
            /\ response.body.callVolume = SumVolume(data.calls)
            /\ response.body.putVolume = SumVolume(data.puts)
        /\ \A j \in 1..Len(results) : IsValid(results[j]) => Holds(results[j])
        /\ (op = "scan_multiple" /\ pc = "loop" /\ idx > 1 /\ IsValid(results[idx - 1])) =>
            /\ results[idx - 1].callVolume = SumVolume(data.calls)
            /\ results[idx - 1].putVolume = SumVolume(data.puts)

\* zero put volume with call volume, a missing volume among the calls
C6_Witness ==
    /\ op = "scan_symbol" /\ pc = "done" /\ response.status = 200
    /\ response.body.putVolume = 0
    /\ response.body.callVolume = 7500
    /\ response.body.ratio = 0
    /\ \E j \in 1..Len(data.puts) : data.puts[j].volume = NaN

\* a ratio that needs rounding: 12500 / 3000 = 4.1666...
C6_WitnessRounded ==
    /\ op = "scan_symbol" /\ pc = "done" /\ response.status = 200
    /\ response.body.putVolume = 3000
    /\ response.body.callVolume = 12500
    /\ response.body.ratio = 417

-----------------------------------------------------------------------------
(* C5 *)

\* C5: every successful entry of a batch is flagged exactly when its callVolume
\* reaches callVolThreshold and its ratio reaches ratioThreshold, the
\* thresholds being 5000 and 2.0 when the request gives none; an entry with
\* putVolume 0 has ratio 0 and so is flagged only if ratioThreshold <= 0.
C5_Flagged ==
    (op = "scan_multiple" /\ request.json = "object") =>
        LET c == IF request.callVolThreshold = Missing THEN 5000
                 ELSE request.callVolThreshold
            r == IF request.ratioThreshold = Missing THEN 200
                 ELSE request.ratioThreshold
        IN  \A j \in 1..Len(results) :
                IsValid(results[j]) =>
                    /\ results[j].flagged \in BOOLEAN
                    /\ results[j].flagged <=>
                          (results[j].callVolume >= c /\ results[j].ratio >= r)
                    /\ (results[j].putVolume = 0 /\ results[j].flagged) => r <= 0

\* defaults: one entry flagged (5000 calls, ratio 3.33), one with no put volume not flagged
C5_Witness ==
    /\ BatchDone
    /\ request.callVolThreshold = Missing /\ request.ratioThreshold = Missing
    /\ Len(results) = 2
    /\ IsValid(results[1]) /\ results[1].flagged /\ results[1].callVolume = 5000
    /\ IsValid(results[2]) /\ ~results[2].flagged /\ results[2].putVolume = 0

\* ratioThreshold 0: an entry with no put volume is flagged
C5_WitnessZeroPuts ==
    /\ BatchDone
    /\ request.ratioThreshold = 0
    /\ \E j \in 1..Len(results) :
          IsValid(results[j]) /\ results[j].putVolume = 0 /\ results[j].flagged

-----------------------------------------------------------------------------
(* C2 *)

\* C2: a batch over s1..sn answers with n entries, entry i carrying the
\* normalized symbol si; a symbol whose fetch returned None, or whose processing
\* raised, has the error entry {symbol, error, flagged: false} at its own
\* position, and the symbols after it are processed all the same.
C2_BatchOrder ==
    (op = "scan_multiple" /\ request.json = "object" /\ Symbols(request) # <<>>) =>
        LET syms == Symbols(request) IN
        /\ Len(results) <= Len(syms)
        /\ pc = "loop" => Len(results) = idx - 1
        /\ \A j \in 1..Len(results) :
              /\ results[j].symbol = ExpectedSymbol(syms[j])
              /\ ~IsValid(results[j]) => IsErrorEntry(results[j])
        /\ (pc = "loop" /\ idx > 1 /\ data = None) => ~IsValid(results[idx - 1])
        /\ (pc = "loop" /\ idx > 1 /\ request.callVolThreshold = Null) =>
              ~IsValid(results[idx - 1])
        /\ pc = "done" =>
              /\ response.status = 200
              /\ response.body.results = results
              /\ Len(results) = Len(syms)

\* the first symbol has no data, the second is analysed
C2_Witness ==
    /\ BatchDone
    /\ request.symbols = << <<" ", "b">>, <<"a", " ">> >>
    /\ Len(response.body.results) = 2
    /\ response.body.results[1] =
          [symbol |-> <<"B">>, error |-> "Could not fetch data", flagged |-> FALSE]
    /\ IsValid(response.body.results[2])
    /\ response.body.results[2].symbol = <<"A">>

\* the first symbol's processing raises, the second has no data
C2_WitnessException ==
    /\ BatchDone
    /\ Len(results) = 2
    /\ results[1].error = "Exception"
    /\ results[2].error = "Could not fetch data"

-----------------------------------------------------------------------------
(* C3 *)

C3_WitnessMissingField ==
    /\ op = "scan_multiple"
    /\ request.json = "object" /\ ~request.has_symbols
    /\ response.status = 400

-----------------------------------------------------------------------------
(* C7 *)

\* C7: the summary of a batch agrees with its results: totalScanned is their
\* number, successfulScans the number without an error marker, flaggedCount the
\* number of those that are flagged (an error entry is never flagged), avgRatio
\* the mean ratio of those rounded to two decimals, 0 when there is none.
C7_Summary ==
    BatchDone =>
        LET rs == response.body.results
            sm == response.body.summary
            ok == { j \in 1..Len(rs) : "error" \notin DOMAIN rs[j] }
            sum[S \in SUBSET ok] ==
                IF S = {} THEN 0
                ELSE LET j == CHOOSE x \in S : TRUE IN rs[j].ratio + sum[S \ {j}]
        IN  /\ sm.totalScanned = Len(rs)
            /\ sm.successfulScans = Cardinality(ok)
            /\ sm.flaggedCount = Cardinality({ j \in ok : rs[j].flagged })
            /\ \A j \in 1..Len(rs) : j \notin ok => ~rs[j].flagged
            /\ ok = {} => sm.avgRatio = 0
            /\ ok # {} => IsRounded(sm.avgRatio, sum[ok], Cardinality(ok))

\* one of two symbols fails; the other's ratio 3.33 is the average
C7_Witness ==
    /\ BatchDone
    /\ response.body.summary.totalScanned = 2
    /\ response.body.summary.successfulScans = 1
    /\ response.body.summary.flaggedCount = 1
    /\ response.body.summary.avgRatio = 333

\* no symbol succeeds
C7_WitnessNone ==
    /\ BatchDone
    /\ response.body.summary.totalScanned = 2
    /\ response.body.summary.successfulScans = 0
    /\ response.body.summary.avgRatio = 0

-----------------------------------------------------------------------------
(* C8 *)

WellFormed(r) ==
    \/ /\ r.status = 200
       /\ op = "scan_symbol"
       /\ DOMAIN r.body = {"symbol", "currentPrice", "callVolume", "putVolume", "ratio"}
    \/ /\ r.status = 200
       /\ op = "top_strikes"
       /\ DOMAIN r.body = {"symbol", "currentPrice"}
    \/ /\ r.status = 200
       /\ op = "scan_multiple"
       /\ DOMAIN r.body = {"summary", "results"}
       /\ \A j \in 1..Len(r.body.results) :
             \/ IsErrorEntry(r.body.results[j])
             \/ DOMAIN r.body.results[j] =
                   {"symbol", "currentPrice", "callVolume", "putVolume", "ratio", "flagged"}
    \/ /\ r.status \in {400, 404, 500}
       /\ "error" \in DOMAIN r.body

\* C8: whatever the provider does (any of the price, expiration and chain
\* queries raising or answering with nothing), get_options_data returns a
\* snapshot or None, every route answers with a well-formed result or a
\* well-formed error, and scan_symbol and top_strikes answer 404 when the
\* fetch returned None.
C8_NoExceptionEscapes ==
    /\ data.kind \in {"pending", "None", "snapshot"}
    /\ Returned => data.kind \in {"None", "snapshot"}
    /\ pc = "done" => WellFormed(response)
    /\ pc # "done" => response = NoResponse
    /\ (op \in {"scan_symbol", "top_strikes"} /\ pc = "done") =>
          /\ data = None <=> response.status = 404
          /\ data # None => response.status = 200

\* every provider query of the call fails
C8_Witness ==
    /\ op = "top_strikes" /\ pc = "done"
    /\ response.status = 404
    /\ market.history.kind = "raise"
    /\ Len(fetched) = 4
    /\ \A j \in 1..4 : fetched[j].answer.kind = "raise"

C8_WitnessBatch ==
    /\ BatchDone
    /\ options_answer = "raise"
    /\ Len(results) = 2
    /\ \A j \in 1..2 : ~IsValid(results[j])

====
